---- MODULE Spec2Model ----
(***************************************************************************)
(* Model of the marketplace backend's encrypted-dataset views              *)
(* (datasets/views.py, datasets/models.py, fix_token_id.py).               *)
(*                                                                         *)
(* State: the EncryptedDataset table, the process environment, the request *)
(* being answered together with its response and the contract calls it     *)
(* made, the (cid, key) pairs that secure-upload handed to clients, and    *)
(* the contract's answers to the enumeration calls of a holdings request.  *)
(* The smart contract, the pinning service and the random key generator    *)
(* are external: their answers are inputs chosen per request.  The         *)
(* configured contract address (blockchain_service.CONTRACT_ADDRESS) is    *)
(* taken to be well formed.                                                *)
(***************************************************************************)
EXTENDS Integers, Sequences, FiniteSets, TLC

VARIABLES store, env, last, receipts, chain

vars == <<store, env, last, receipts, chain>>

(***************************************************************************)
(* Bounds                                                                  *)
(***************************************************************************)
MaxCid == 2
MaxToken == 1
MaxCatalog == 2
\* number of hex characters of an address (40 in Ethereum), after "0x"
HexLen == 4

(***************************************************************************)
(* Program constants                                                       *)
(***************************************************************************)
\* fix_token_id.py: TOKEN_ID = 14
TOKEN_ID == 14

NULL == -1
\* an absent or empty string parameter
None == <<>>
\* the outcome of a call that raised, where a string was expected
Raise == <<"Raise">>

Cids == 1..MaxCid
\* fix_token_id.py: IPFS_CID, the content identifier the script repairs
IPFS_CID == 1
\* values Fernet.generate_key() can return
Keys == {"k1", "k2"}
Names == {"dataset"}

(***************************************************************************)
(* Strings are sequences of characters                                     *)
(***************************************************************************)
LowerChar(c) ==
    CASE c = "A" -> "a"
      [] c = "B" -> "b"
      [] OTHER -> c

UpperChar(c) ==
    CASE c = "a" -> "A"
      [] c = "b" -> "B"
      [] OTHER -> c

HexChars == {"0", "a", "b", "A", "B"}

\* str.lower()
lower(s) == [i \in 1..Len(s) |-> LowerChar(s[i])]

\* eth_utils.remove_0x_prefix
remove_0x_prefix(s) ==
    IF Len(s) >= 2 /\ s[1] = "0" /\ LowerChar(s[2]) = "x"
    THEN SubSeq(s, 3, Len(s))
    ELSE s

\* eth_utils.is_hex_address: HexLen hex characters after the optional prefix
is_address(s) ==
    LET h == remove_0x_prefix(s)
    IN  /\ Len(h) = HexLen
        /\ \A i \in 1..Len(h) : h[i] \in HexChars

\* Web3.to_checksum_address: the canonical mixed-case form of an address.
\* The keccak nibble that decides the case of position i is modelled by the
\* parity of i; the result depends only on the lower-cased address.
to_checksum_address(s) ==
    IF ~is_address(s) THEN Raise
    ELSE LET h == lower(remove_0x_prefix(s))
         IN  <<"0", "x">> \o
             [i \in 1..Len(h) |-> IF i % 2 = 1 THEN UpperChar(h[i]) ELSE h[i]]

\* An address string whose first two hex characters are c1, c2
Addr(c1, c2) ==
    <<"0", "x", c1, c2>> \o [i \in 1..(HexLen - 2) |-> "0"]

W_ab_lower == Addr("a", "b")
W_ab_upper == Addr("A", "B")
W_ba_lower == Addr("b", "a")
W_nonhex  == Addr("g", "a")

\* wallet strings a client may send; None is an absent or empty parameter
WalletInputs ==
    {W_ab_lower, W_ba_lower, W_nonhex}
\* owner_address values sent with an upload
OwnerInputs == {W_ab_upper}
\* addresses the contract can return from ownerOf (web3 returns checksummed)
ChainOwners == {to_checksum_address(W_ab_lower), to_checksum_address(W_ba_lower)}

(***************************************************************************)
(* token_id as sent to finalize: a JSON integer, the numeric string "0",   *)
(* a non-numeric string, or absent                                         *)
(***************************************************************************)
TokenValues == 0..MaxToken
TokenInputs ==
    {<<"int", n>> : n \in TokenValues} \cup {<<"str", 0>>, <<"bad">>, <<"none">>}

\* Python truthiness of the request field
Truthy(tok) ==
    CASE tok[1] = "int" -> tok[2] /= 0
      [] tok[1] = "str" -> TRUE
      [] tok[1] = "bad" -> TRUE
      [] OTHER -> FALSE

\* IntegerField.get_prep_value: int(value); ValueError (here -2) on a
\* non-numeric string
ValueError == NULL - 1
to_python_int(tok) ==
    CASE tok[1] = "int" -> tok[2]
      [] tok[1] = "str" -> tok[2]
      [] OTHER -> ValueError

(***************************************************************************)
(* Responses                                                               *)
(***************************************************************************)
NoBody == [key |-> <<"none">>, ipfs_cid |-> 0, name |-> ""]

Resp(status, error) == [status |-> status, error |-> error, body |-> NoBody]

\* bytes.decode('utf-8')
decode(key) == <<"str", key[2]>>

\* variant: the stored bytes are returned without decoding
success_response_raw(dataset) ==
    [status |-> 200, error |-> "",
     body |-> [key |-> dataset.encryption_key,
               ipfs_cid |-> dataset.ipfs_cid,
               name |-> dataset.name]]

\* SecureAccessView._success_response; the BinaryField is read back as bytes
success_response(dataset) ==
    [status |-> 200, error |-> "",
     body |-> [key |-> IF dataset.encryption_key[1] = "bytes"
                       THEN decode(dataset.encryption_key)
                       ELSE dataset.encryption_key,
               ipfs_cid |-> dataset.ipfs_cid,
               name |-> dataset.name]]

(***************************************************************************)
(* EncryptedDataset table: a sequence of rows, the index is the primary key *)
(***************************************************************************)
Row(name, cid, key, owner) ==
    [name |-> name, ipfs_cid |-> cid, encryption_key |-> <<"bytes", key>>,
     dataset_id |-> NULL, owner_address |-> owner]

\* EncryptedDataset.objects.get(ipfs_cid=...): primary keys that match
ByCid(s, cid) == {pk \in DOMAIN s : s[pk].ipfs_cid = cid}

\* EncryptedDataset.objects.get(dataset_id=...)
ByToken(s, tok) == {pk \in DOMAIN s : s[pk].dataset_id = tok}

\* variant: the column carries no uniqueness constraint
DatasetIdTaken_Never(s, pk, tok) == FALSE

\* variant: the uniqueness check does not exclude the row being saved
DatasetIdTaken_IncludingSelf(s, pk, tok) ==
    \E other \in DOMAIN s : s[other].dataset_id = tok

\* unique=True on dataset_id: saving row pk with value tok collides with
\* another row holding tok
DatasetIdTaken(s, pk, tok) ==
    \E other \in DOMAIN s : other /= pk /\ s[other].dataset_id = tok

\* unique=True on ipfs_cid at insert
CidTaken(s, cid) == ByCid(s, cid) /= {}

Request(op, cid, token, wallet) ==
    [op |-> op, cid |-> cid, token |-> token, wallet |-> wallet]

\* answers of the contract to the calls of UserDatasetsView.get
Ok(v) == [ok |-> TRUE, value |-> v]
Err == [ok |-> FALSE, value |-> <<>>]
NoChain == [owned |-> Err, purchased |-> Err, detail_fail |-> {},
            all |-> Err, access |-> <<>>]

\* no request is being answered
NoRequest ==
    [req |-> Request("none", 0, <<"none">>, None),
     resp |-> Resp(0, ""), calls |-> <<>>, repeat |-> FALSE]

\* a view handles its request in one synchronous call; the next request is
\* taken up once the response has been delivered
Idle == last = NoRequest

Init ==
    /\ store = <<>>
    /\ env \in [SEPOLIA_RPC_URL : BOOLEAN, PINATA_JWT : BOOLEAN]
    /\ last = NoRequest
    /\ receipts = <<>>
    /\ chain = NoChain


(***************************************************************************)
(* SecureUploadView.post                                                   *)
(***************************************************************************)
PinataAnswers == {<<"ok", c>> : c \in Cids} \cup {<<"status", 401>>, <<"raise">>}

\* The handler as a function of the request and of what the key generator
\* and the pinning service answer: the new table and the response.
SecureUploadView_post(s, e, has_file, owner_address, dataset_name, key, pinata_res) ==
    IF ~has_file THEN [store |-> s, resp |-> Resp(400, "No file provided")]
    ELSE IF owner_address = None
    THEN [store |-> s, resp |-> Resp(400, "owner_address required")]
    ELSE IF ~e.PINATA_JWT
    THEN [store |-> s, resp |-> Resp(500, "Server config error: Missing Pinata JWT")]
    ELSE IF pinata_res[1] = "raise"
    THEN [store |-> s, resp |-> Resp(500, "Exception")]
    ELSE IF pinata_res[1] = "status"
    THEN [store |-> s, resp |-> Resp(502, "Pinata Error")]
    ELSE IF CidTaken(s, pinata_res[2])
    THEN [store |-> s, resp |-> Resp(500, "Exception")]
    ELSE [store |-> Append(s, Row(dataset_name, pinata_res[2], key, owner_address)),
          resp |-> [status |-> 201, error |-> "",
                    body |-> [key |-> decode(<<"bytes", key>>),
                              ipfs_cid |-> pinata_res[2],
                              name |-> dataset_name]]]

SecureUpload ==
    \E has_file \in BOOLEAN, owner_address \in OwnerInputs \cup {None},
       dataset_name \in Names, key \in Keys, pinata_res \in PinataAnswers :
        LET r == SecureUploadView_post(store, env, has_file, owner_address,
                                       dataset_name, key, pinata_res)
        IN  /\ Idle
            /\ store' = r.store
            /\ last' = [req |-> Request("upload", 0, <<"none">>, owner_address),
                        resp |-> r.resp, calls |-> <<>>, repeat |-> FALSE]
            /\ receipts' = IF r.resp.status = 201
                           THEN Append(receipts, [ipfs_cid |-> r.resp.body.ipfs_cid,
                                                  key |-> r.resp.body.key])
                           ELSE receipts
            /\ UNCHANGED <<env, chain>>

(***************************************************************************)
(* SecureAccessView.post (finalize)                                        *)
(***************************************************************************)
\* variant: the comparison is case-sensitive
OwnerMismatch_CaseSensitive(stored, owner_address) ==
    owner_address /= None /\ stored /= owner_address

\* line 184: the claimed wallet is compared only when one was sent
OwnerMismatch(stored, owner_address) ==
    owner_address /= None /\ lower(stored) /= lower(owner_address)

\* dataset.dataset_id = token_id; dataset.save()
SaveDatasetId(s, pk, tok) ==
    [s EXCEPT ![pk].dataset_id = tok]

SecureAccessView_post(s, ipfs_cid, token_id, owner_address) ==
    IF ipfs_cid = 0 \/ ~Truthy(token_id)
    THEN [store |-> s, resp |-> Resp(400, "Missing fields")]
    ELSE IF ByCid(s, ipfs_cid) = {}
    THEN [store |-> s, resp |-> Resp(404, "Dataset not found")]
    ELSE LET pk == CHOOSE p \in ByCid(s, ipfs_cid) : TRUE
         IN  IF OwnerMismatch(s[pk].owner_address, owner_address)
             THEN [store |-> s,
                   resp |-> Resp(403, "Unauthorized: wallet address mismatch")]
             ELSE IF to_python_int(token_id) = ValueError
             THEN [store |-> s, resp |-> Resp(500, "Unhandled ValueError")]
             ELSE IF DatasetIdTaken(s, pk, to_python_int(token_id))
             THEN [store |-> s, resp |-> Resp(500, "Unhandled IntegrityError")]
             ELSE [store |-> SaveDatasetId(s, pk, to_python_int(token_id)),
                   resp |-> Resp(200, "")]

\* ipfs_cid 0 stands for an absent or empty ipfs_cid field
Finalize ==
    \E ipfs_cid \in Cids \cup {0}, token_id \in TokenInputs,
       owner_address \in WalletInputs \cup {None} :
        LET r == SecureAccessView_post(store, ipfs_cid, token_id, owner_address)
        IN  /\ Idle
            /\ store' = r.store
            /\ last' = [req |-> Request("finalize", ipfs_cid, token_id, owner_address),
                        resp |-> r.resp, calls |-> <<>>, repeat |-> FALSE]
            /\ UNCHANGED <<env, receipts, chain>>

\* the client sends the finalize request it was just answered once more
RetryFinalize ==
    /\ last.req.op = "finalize"
    /\ LET r == SecureAccessView_post(store, last.req.cid, last.req.token,
                                      last.req.wallet)
       IN  /\ store' = r.store
           /\ last' = [req |-> last.req, resp |-> r.resp, calls |-> <<>>,
                       repeat |-> TRUE]
    /\ UNCHANGED <<env, receipts, chain>>


(***************************************************************************)
(* SecureAccessView.get (access)                                           *)
(***************************************************************************)
OwnerOfAnswers == ChainOwners \cup {Raise}
HasAccessAnswers == {"true", "false", "raise"}

OwnerOfCall(tok, res) ==
    [fn |-> "ownerOf", token |-> tok, wallet |-> None, result |-> res]
HasAccessCall(tok, w, res) ==
    [fn |-> "hasAccess", token |-> tok, wallet |-> w, result |-> <<res>>]

\* variant: any owner the contract reports authorizes the caller
OwnerIsAnyone(owner, checksum_wallet) == TRUE

\* line 145: owner == checksum_wallet
OwnerIsCaller(owner, checksum_wallet) == owner = checksum_wallet

\* variant: the rental predicate is consulted on every request
VerifyOnChain_RentalAlways(dataset, tok, checksum_wallet, owner, has_access) ==
    LET calls == <<OwnerOfCall(tok, owner),
                   HasAccessCall(tok, checksum_wallet, has_access)>>
    IN  CASE has_access = "raise" ->
               [resp |-> Resp(500, "Blockchain verification failed"),
                calls |-> calls]
          [] has_access = "true" \/ (owner /= Raise /\ owner = checksum_wallet) ->
               [resp |-> success_response(dataset), calls |-> calls]
          [] OTHER ->
               [resp |-> Resp(403, "Access denied"), calls |-> calls]

\* lines 142-161: the two contract checks, with the calls they make
VerifyOnChain(dataset, tok, checksum_wallet, owner, has_access) ==
    IF owner /= Raise /\ OwnerIsCaller(owner, checksum_wallet)
    THEN [resp |-> success_response(dataset),
          calls |-> <<OwnerOfCall(tok, owner)>>]
    ELSE LET calls == <<OwnerOfCall(tok, owner),
                        HasAccessCall(tok, checksum_wallet, has_access)>>
         IN  CASE has_access = "raise" ->
                    [resp |-> Resp(500, "Blockchain verification failed"),
                     calls |-> calls]
               [] has_access = "true" ->
                    [resp |-> success_response(dataset), calls |-> calls]
               [] OTHER ->
                    [resp |-> Resp(403, "Access denied"), calls |-> calls]

SecureAccessView_get(s, e, dataset_id, wallet_address, owner, has_access) ==
    IF wallet_address = None
    THEN [resp |-> Resp(400, "wallet_address required"), calls |-> <<>>]
    ELSE IF ByToken(s, dataset_id) = {}
    THEN [resp |-> Resp(404, "Dataset key not found"), calls |-> <<>>]
    ELSE IF ~e.SEPOLIA_RPC_URL
    THEN [resp |-> Resp(500, "Server config error: Missing RPC URL"),
          calls |-> <<>>]
    ELSE IF to_checksum_address(wallet_address) = Raise
    THEN [resp |-> Resp(500, "Blockchain verification failed"), calls |-> <<>>]
    ELSE LET pk == CHOOSE p \in ByToken(s, dataset_id) : TRUE
         IN  VerifyOnChain(s[pk], dataset_id,
                           to_checksum_address(wallet_address), owner, has_access)

\* the url converter <int:dataset_id> admits non-negative integers only
Access ==
    \E dataset_id \in TokenValues \cup {TOKEN_ID},
       wallet_address \in WalletInputs \cup {None},
       owner \in OwnerOfAnswers, has_access \in HasAccessAnswers :
        LET r == SecureAccessView_get(store, env, dataset_id, wallet_address,
                                      owner, has_access)
        IN  /\ Idle
            /\ last' = [req |-> Request("access", 0, <<"int", dataset_id>>,
                                        wallet_address),
                        resp |-> r.resp, calls |-> r.calls, repeat |-> FALSE]
            /\ UNCHANGED <<store, env, receipts, chain>>

(***************************************************************************)
(* fix_token_id.py: the maintenance script                                 *)
(***************************************************************************)
fix_token_id(s) ==
    IF ByCid(s, IPFS_CID) = {}
    THEN [store |-> s, resp |-> Resp(0, "No dataset found")]
    ELSE LET pk == CHOOSE p \in ByCid(s, IPFS_CID) : TRUE
         IN  IF DatasetIdTaken(s, pk, TOKEN_ID)
             THEN [store |-> s, resp |-> Resp(0, "Error")]
             ELSE [store |-> SaveDatasetId(s, pk, TOKEN_ID),
                   resp |-> Resp(0, "Successfully linked")]

FixTokenId ==
    LET r == fix_token_id(store)
    IN  /\ Idle
        /\ store' = r.store
        /\ last' = [req |-> Request("fix_token_id", IPFS_CID, <<"int", TOKEN_ID>>, None),
                    resp |-> r.resp, calls |-> <<>>, repeat |-> FALSE]
        /\ UNCHANGED <<env, receipts, chain>>

\* the response has been delivered; the next request can be handled
Deliver ==
    /\ last.req.op \in {"upload", "finalize", "access", "fix_token_id"}
    /\ last' = NoRequest
    /\ UNCHANGED <<store, env, receipts, chain>>

Next ==
    SecureUpload \/ Finalize \/ RetryFinalize \/ Access \/ FixTokenId \/ Deliver

Spec == Init /\ [][Next]_vars


(***************************************************************************)
(* UserDatasetsView.get (list_holdings)                                    *)
(***************************************************************************)
CatalogTokens == 1..MaxCatalog

\* the Dataset struct the contract holds for token t
DatasetOnChain(t) ==
    [token_id |-> t, name |-> "dataset", description |-> "description",
     category |-> "category", format |-> "format", ipfs_cid |-> t,
     price |-> 100 + t, owner |-> to_checksum_address(W_ba_lower)]

\* lines 263-272: the dictionary built from a struct; price becomes str(ds[6])
Entry(ds) ==
    [token_id |-> ds.token_id, name |-> ds.name, description |-> ds.description,
     category |-> ds.category, format |-> ds.format, ipfs_cid |-> ds.ipfs_cid,
     price |-> <<"str", ds.price>>, owner |-> ds.owner]

TokenIds(list) == {list[i].token_id : i \in DOMAIN list}

\* lines 259-274
OwnedDatasets(owned_data) ==
    IF ~owned_data.ok THEN <<>>
    ELSE [i \in DOMAIN owned_data.value |->
            Entry(DatasetOnChain(owned_data.value[i]))]

\* variant: a failed detail fetch discards the entries already fetched
PurchasedLoop_AllOrNothing(ids, detail_fail) ==
    IF \E i \in DOMAIN ids : ids[i] \in detail_fail THEN <<>>
    ELSE [i \in DOMAIN ids |-> Entry(DatasetOnChain(ids[i]))]

\* lines 280-293: the loop appends until getDatasetById raises
RECURSIVE PurchasedLoop(_, _)
PurchasedLoop(ids, detail_fail) ==
    IF ids = <<>> THEN <<>>
    ELSE IF Head(ids) \in detail_fail THEN <<>>
    ELSE <<Entry(DatasetOnChain(Head(ids)))>>
             \o PurchasedLoop(Tail(ids), detail_fail)

\* lines 277-293
PurchasedDatasets(purchased_token_ids, detail_fail) ==
    IF ~purchased_token_ids.ok THEN <<>>
    ELSE PurchasedLoop(purchased_token_ids.value, detail_fail)

\* variant: only the owned list is consulted
AlreadyHeld_OwnedOnly(token_id, owned_datasets, purchased_datasets) ==
    \E i \in DOMAIN owned_datasets : owned_datasets[i].token_id = token_id

\* line 303: any(d['token_id'] == token_id for d in owned + purchased)
AlreadyHeld(token_id, owned_datasets, purchased_datasets) ==
    LET both == owned_datasets \o purchased_datasets
    IN  \E i \in DOMAIN both : both[i].token_id = token_id

\* lines 300-321: the catalog scan
RECURSIVE RentedLoop(_, _, _, _)
RentedLoop(all_datasets, owned_datasets, purchased_datasets, access) ==
    IF all_datasets = <<>> THEN <<>>
    ELSE LET ds == DatasetOnChain(Head(all_datasets))
             rest == RentedLoop(Tail(all_datasets), owned_datasets,
                                purchased_datasets, access)
         IN  IF AlreadyHeld(ds.token_id, owned_datasets, purchased_datasets)
             THEN rest
             ELSE IF access[ds.token_id] = "true"
             THEN <<Entry(ds)>> \o rest
             ELSE rest

\* lines 296-323
RentedDatasets(all_datasets, owned_datasets, purchased_datasets, access) ==
    IF ~all_datasets.ok THEN <<>>
    ELSE RentedLoop(all_datasets.value, owned_datasets, purchased_datasets, access)

NoHoldings == [owned |-> <<>>, purchased |-> <<>>, rented |-> <<>>,
               total_count |-> 0]

UserDatasetsView_get(e, wallet_address, c) ==
    IF ~e.SEPOLIA_RPC_URL
    THEN [status |-> 500, error |-> "Server config error: Missing RPC URL",
          body |-> NoHoldings]
    ELSE IF to_checksum_address(wallet_address) = Raise
    THEN [status |-> 500, error |-> "Failed to fetch user datasets",
          body |-> NoHoldings]
    ELSE LET owned_datasets == OwnedDatasets(c.owned)
             purchased_datasets == PurchasedDatasets(c.purchased, c.detail_fail)
             rented_datasets == RentedDatasets(c.all, owned_datasets,
                                               purchased_datasets, c.access)
         IN  [status |-> 200, error |-> "",
              body |-> [owned |-> owned_datasets,
                        purchased |-> purchased_datasets,
                        rented |-> rented_datasets,
                        total_count |-> Len(owned_datasets)
                                        + Len(purchased_datasets)
                                        + Len(rented_datasets)]]

\* lists of distinct catalog tokens
TokenLists ==
    {q \in UNION {[1..n -> CatalogTokens] : n \in 0..MaxCatalog} :
        \A i, j \in DOMAIN q : i /= j => q[i] /= q[j]}

\* getAllDatasets returns the whole catalog
Catalog == [i \in 1..MaxCatalog |-> i]

ChainAnswers ==
    [owned : {Err} \cup {Ok(q) : q \in TokenLists},
     purchased : {Err} \cup {Ok(q) : q \in TokenLists},
     detail_fail : SUBSET CatalogTokens,
     all : {Err, Ok(Catalog)},
     access : [CatalogTokens -> HasAccessAnswers]]

\* one holdings request, waiting to be handled
InitHoldings ==
    /\ store = <<>>
    /\ receipts = <<>>
    /\ env \in [SEPOLIA_RPC_URL : BOOLEAN, PINATA_JWT : {TRUE}]
    /\ chain \in ChainAnswers
    /\ \E wallet_address \in {W_ab_lower, W_nonhex} :
         last = [req |-> Request("user-datasets", 0, <<"none">>, wallet_address),
                 resp |-> Resp(0, ""), calls |-> <<>>, repeat |-> FALSE]

UserDatasets ==
    /\ last.req.op = "user-datasets"
    /\ last.resp.status = 0
    /\ last' = [last EXCEPT !.resp = UserDatasetsView_get(env, last.req.wallet, chain)]
    /\ UNCHANGED <<store, env, receipts, chain>>

NextHoldings == UserDatasets

SpecHoldings == InitHoldings /\ [][NextHoldings]_vars

(***************************************************************************)
(* Properties of the access, finalize and upload handlers                  *)
(***************************************************************************)
IsAccess == last.req.op = "access"
IsFinalize == last.req.op = "finalize"
ReqToken == last.req.token[2]
ReqWallet == last.req.wallet
KeyRevealed == last.resp.body.key /= <<"none">>

\* the same address, whatever the letter case and with or without prefix
SameAddress(x, y) ==
    lower(remove_0x_prefix(x)) = lower(remove_0x_prefix(y))

CallIdx(fn) == {i \in DOMAIN last.calls : last.calls[i].fn = fn}

\* ownerOf(token) was called in this request and returned an address
OwnerOfReturnedCaller ==
    \E i \in CallIdx("ownerOf") :
        /\ last.calls[i].token = ReqToken
        /\ last.calls[i].result /= Raise
        /\ SameAddress(last.calls[i].result, ReqWallet)
OwnerOfReturnedOther ==
    \E i \in CallIdx("ownerOf") :
        /\ last.calls[i].token = ReqToken
        /\ last.calls[i].result /= Raise
        /\ ~SameAddress(last.calls[i].result, ReqWallet)
\* hasAccess(token, wallet) was called in this request with outcome v
HasAccessReturned(v) ==
    \E i \in CallIdx("hasAccess") :
        /\ last.calls[i].token = ReqToken
        /\ SameAddress(last.calls[i].wallet, ReqWallet)
        /\ last.calls[i].result = <<v>>

\* C1: the access operation reveals the key only if ownerOf(T) returned the
\* caller's wallet or hasAccess(T, W) returned true; when ownerOf(T) returned
\* another wallet and hasAccess(T, W) returned false the outcome is
\* AccessDenied (403) and the response carries no key.
C1_KeyOnlyForOwnerOrRenter ==
    IsAccess =>
        /\ KeyRevealed => (OwnerOfReturnedCaller \/ HasAccessReturned("true"))
        /\ (OwnerOfReturnedOther /\ HasAccessReturned("false")) =>
               (last.resp.status = 403 /\ last.resp.error = "Access denied"
                /\ ~KeyRevealed)

C1_Witness_DeniedForOtherOwner ==
    /\ IsAccess
    /\ OwnerOfReturnedOther
    /\ HasAccessReturned("false")
    /\ ByToken(store, ReqToken) /= {}
    /\ last.resp.status = 403

\* C2: once a record's token id is non-null, no finalize call replaces it
\* with a different value unless the call supplied a claimed owner wallet
\* (which line 184 then checks against the stored owner wallet).
C2_TokenIdNotOverwrittenUnverified ==
    [][\A pk \in DOMAIN store :
          (/\ last'.req.op = "finalize"
           /\ store[pk].dataset_id /= NULL
           /\ store'[pk].dataset_id /= store[pk].dataset_id)
          => last'.req.wallet /= None]_vars

\* C3: when the caller is not established as owner and hasAccess itself
\* fails, the outcome is AccessDenied (403), as when hasAccess returns false.
C3_RentalErrorIsAccessDenied ==
    (IsAccess /\ ~OwnerOfReturnedCaller /\ HasAccessReturned("raise")) =>
        (last.resp.status = 403 /\ last.resp.error = "Access denied")

\* C4: finalize is idempotent: a finalize call that repeats the previous,
\* successful finalize call (same content identifier, token id and wallet)
\* leaves the table as it was and reports success again.
C4_FinalizeIdempotent ==
    [][(/\ IsFinalize
        /\ last.resp.status = 200
        /\ last'.req = last.req
        /\ last'.repeat)
       => (store' = store /\ last'.resp.status = 200)]_vars

C4_Witness_RepeatedFinalize ==
    /\ IsFinalize
    /\ last.repeat
    /\ last.resp.status = 200
    /\ \E pk \in ByCid(store, last.req.cid) :
           store[pk].dataset_id = to_python_int(last.req.token)

\* C5: ownerOf is queried before hasAccess, and whenever ownerOf(token)
\* returns the caller's checksummed wallet the request is authorized and
\* hasAccess is not called in that request.
C5_OwnershipShortCircuits ==
    IsAccess =>
        /\ \A i \in CallIdx("hasAccess") : \E j \in CallIdx("ownerOf") : j < i
        /\ (\E i \in CallIdx("ownerOf") :
                last.calls[i].result = to_checksum_address(ReqWallet))
           => (/\ last.resp.status = 200
               /\ KeyRevealed
               /\ CallIdx("hasAccess") = {})

C5_Witness_OwnerAuthorized ==
    /\ IsAccess
    /\ \E i \in CallIdx("ownerOf") :
           last.calls[i].result = to_checksum_address(ReqWallet)
    /\ last.resp.status = 200

\* C6: access for a token id with a stored record and a malformed wallet
\* address ends with an outcome of its own (InvalidAddress), distinct from
\* AccessDenied and from the verification-failure outcome, and makes no
\* contract call.
C6_InvalidAddressIsDistinct ==
    (/\ IsAccess
     /\ ByToken(store, ReqToken) /= {}
     /\ ReqWallet /= None
     /\ ~is_address(ReqWallet))
    => (/\ last.resp.error /= "Access denied"
        /\ last.resp.error /= "Blockchain verification failed"
        /\ last.calls = <<>>)

\* the part of C6 the handler does satisfy: no contract call is made
C6_NoChainCallOnMalformedWallet ==
    (IsAccess /\ ReqWallet /= None /\ ~is_address(ReqWallet))
        => last.calls = <<>>

\* C7: a finalize call whose claimed owner wallet differs, compared
\* case-insensitively, from the stored owner wallet of the record found by
\* content identifier is rejected with OwnershipMismatch (403) and changes no
\* record; a claimed wallet that differs only in letter case is not rejected
\* as a mismatch.
C7_OwnershipMismatchRejected ==
    [][(/\ last'.req.op = "finalize"
        /\ last'.req.cid /= 0
        /\ Truthy(last'.req.token)
        /\ last'.req.wallet /= None)
       => \A pk \in ByCid(store, last'.req.cid) :
            /\ lower(store[pk].owner_address) /= lower(last'.req.wallet)
               => (/\ last'.resp.status = 403
                   /\ last'.resp.error = "Unauthorized: wallet address mismatch"
                   /\ store' = store)
            /\ lower(store[pk].owner_address) = lower(last'.req.wallet)
               => last'.resp.status /= 403]_vars

C7_Witness_MismatchRejected ==
    /\ IsFinalize
    /\ last.resp.status = 403
    /\ \E pk \in ByCid(store, last.req.cid) :
           lower(store[pk].owner_address) /= lower(last.req.wallet)

\* C8: a record's key and content identifier never change after upload: no
\* step modifies them, and every authorized access for a token id returns
\* the key and content identifier that secure-upload returned for the record
\* the token id is attached to.
C8_KeyAndCidNeverChange ==
    /\ [](IsAccess /\ last.resp.status = 200 =>
            \E pk \in ByToken(store, ReqToken) :
                /\ last.resp.body.key = receipts[pk].key
                /\ last.resp.body.ipfs_cid = receipts[pk].ipfs_cid)
    /\ [][\A pk \in DOMAIN store :
            /\ store'[pk].encryption_key = store[pk].encryption_key
            /\ store'[pk].ipfs_cid = store[pk].ipfs_cid]_vars

C8_Witness_KeyReturnedAfterFinalize ==
    /\ IsAccess
    /\ last.resp.status = 200
    /\ \E pk \in ByToken(store, ReqToken) :
           last.resp.body.key = receipts[pk].key


\* the finalize request being answered names a token id that a record other
\* than the one it addresses holds
FinalizeCollides(s, req) ==
    /\ req.op = "finalize"
    /\ req.cid /= 0
    /\ Truthy(req.token)
    /\ to_python_int(req.token) /= ValueError
    /\ \E pk \in ByCid(s, req.cid), other \in DOMAIN s :
          /\ other /= pk
          /\ s[other].dataset_id = to_python_int(req.token)

\* C11: no two records hold the same non-null token id, so a lookup by token
\* id matches at most one record; a finalize that would give a record a
\* token id held by a different record changes no record; every record is
\* created by upload, with token id null.
C11_TokenIdUnique ==
    /\ [](\A pk, other \in DOMAIN store :
            (pk /= other /\ store[pk].dataset_id /= NULL)
                => store[pk].dataset_id /= store[other].dataset_id)
    /\ [](\A tok \in TokenValues \cup {TOKEN_ID} :
            Cardinality(ByToken(store, tok)) <= 1)
    /\ [][FinalizeCollides(store, last'.req) => store' = store]_vars
    /\ [][Len(store') /= Len(store) =>
            /\ last'.req.op = "upload"
            /\ Len(store') = Len(store) + 1
            /\ SubSeq(store', 1, Len(store)) = store
            /\ store'[Len(store')].dataset_id = NULL]_vars

\* a finalize asked for a token id another record holds and was refused
C11_Witness_CollidingFinalizeRefused ==
    /\ IsFinalize
    /\ FinalizeCollides(store, last.req)
    /\ last.resp.status = 500
    /\ \E pk \in ByCid(store, last.req.cid) :
           store[pk].dataset_id /= to_python_int(last.req.token)

(***************************************************************************)
(* Properties of the holdings handler                                      *)
(***************************************************************************)
HoldingsDone == last.req.op = "user-datasets" /\ last.resp.status /= 0
HoldingsReached ==
    /\ HoldingsDone
    /\ env.SEPOLIA_RPC_URL
    /\ is_address(last.req.wallet)
Holdings == last.resp.body

\* C9: in the result of list_holdings no token id of the rented list appears
\* in the owned or the purchased list, every rented entry is a catalog item
\* for which hasAccess(token, wallet) returned true, and total_count is the
\* sum of the three list lengths.
C9_RentedExcludesHeld ==
    (HoldingsDone /\ last.resp.status = 200) =>
        /\ \A i \in DOMAIN Holdings.rented :
             LET t == Holdings.rented[i].token_id
             IN  /\ t \notin TokenIds(Holdings.owned)
                 /\ t \notin TokenIds(Holdings.purchased)
                 /\ chain.all.ok
                 /\ \E j \in DOMAIN chain.all.value : chain.all.value[j] = t
                 /\ chain.access[t] = "true"
        /\ Holdings.total_count = Len(Holdings.owned) + Len(Holdings.purchased)
                                    + Len(Holdings.rented)

\* a token the wallet has rental access to is held back from the rented list
\* because it is purchased, while another token is listed as rented
C9_Witness_HeldTokenSkipped ==
    /\ HoldingsDone
    /\ last.resp.status = 200
    /\ Holdings.rented /= <<>>
    /\ \E t \in TokenIds(Holdings.purchased) :
           chain.all.ok /\ chain.access[t] = "true"

\* the purchased enumeration failed: the id list call or a detail fetch
PurchasedFailed ==
    \/ ~chain.purchased.ok
    \/ \E i \in DOMAIN chain.purchased.value :
           chain.purchased.value[i] \in chain.detail_fail

\* C10 as stated: when an enumeration fails at any point the call succeeds,
\* the list of the failed category is empty, and the other categories are
\* reported as if the failure had not happened (here: as the handler reports
\* them when no detail fetch fails).
C10_FailedCategoryEmpty ==
    HoldingsReached =>
        /\ last.resp.status = 200
        /\ ~chain.owned.ok => Holdings.owned = <<>>
        /\ PurchasedFailed => Holdings.purchased = <<>>
        /\ ~chain.all.ok => Holdings.rented = <<>>
        /\ LET healthy == UserDatasetsView_get(env, last.req.wallet,
                             [chain EXCEPT !.detail_fail = {}]).body
           IN  /\ Holdings.owned = healthy.owned
               /\ Holdings.rented = healthy.rented

\* number of purchased ids before the first one whose detail fetch fails
FetchedBeforeFailure(ids, detail_fail) ==
    LET bad == {i \in DOMAIN ids : ids[i] \in detail_fail}
    IN  IF bad = {} THEN Len(ids)
        ELSE (CHOOSE i \in bad : \A j \in bad : i <= j) - 1

\* C10 amended: the call succeeds whatever enumeration fails; a category
\* whose enumeration call fails is empty; a failing detail fetch leaves in
\* purchased the entries of the ids before it; owned is what
\* getDatasetsByOwner returned whatever else fails; rented holds exactly the
\* catalog tokens with hasAccess true that are not in the owned and
\* purchased lists as reported.
C10_PartialFailureTolerated ==
    HoldingsReached =>
        /\ last.resp.status = 200
        /\ ~chain.owned.ok => Holdings.owned = <<>>
        /\ ~chain.purchased.ok => Holdings.purchased = <<>>
        /\ ~chain.all.ok => Holdings.rented = <<>>
        /\ chain.owned.ok =>
             /\ Len(Holdings.owned) = Len(chain.owned.value)
             /\ \A i \in DOMAIN Holdings.owned :
                  Holdings.owned[i].token_id = chain.owned.value[i]
        /\ chain.purchased.ok =>
             /\ Len(Holdings.purchased) =
                  FetchedBeforeFailure(chain.purchased.value, chain.detail_fail)
             /\ \A i \in DOMAIN Holdings.purchased :
                  Holdings.purchased[i].token_id = chain.purchased.value[i]
        /\ chain.all.ok =>
             \A t \in CatalogTokens :
                (t \in TokenIds(Holdings.rented)) <=>
                    /\ chain.access[t] = "true"
                    /\ t \notin TokenIds(Holdings.owned)
                    /\ t \notin TokenIds(Holdings.purchased)

\* the second detail fetch failed and the first purchased entry is reported
C10_Witness_PartialPurchased ==
    /\ HoldingsReached
    /\ chain.purchased.ok
    /\ Len(chain.purchased.value) = 2
    /\ chain.purchased.value[2] \in chain.detail_fail
    /\ Len(Holdings.purchased) = 1

====
